---- MODULE Spec2Model ----
(***************************************************************************)
(* Trip ingestion pipeline of the NYC taxi mobility explorer               *)
(* (scripts/importData.js): row validation, enrichment, batching, the      *)
(* exclusion log and the bulk inserts, on the CSV (push stream) and the    *)
(* Parquet (pull cursor) path.                                             *)
(*                                                                         *)
(* Numbers read with parseFloat are held in fixed point: an integer count  *)
(* of 1/Scale units.  Numbers read with parseInt are plain integers.       *)
(* Timestamps are integer milliseconds.                                    *)
(***************************************************************************)
EXTENDS Integers, Sequences, FiniteSets, TLC

\* ------------------------------------------------------------------ bounds
\* Fixed-point resolution of parseFloat values (units per 1.0).
Scale == 10
\* Batch threshold (2000 in the source, scaled down for exploration).
BATCH_SIZE == 2
\* Exclusion-log cap (5000 in the source, scaled down for exploration).
LOG_CAP == 2
\* Longest trip source explored, in rows.
MaxRows == 4
\* Most insert failures injected in one run.
MaxDbFailures == 1
\* Most failing appends to the exclusion log injected in one run.
MaxLogFailures == 1

\* --------------------------------------------------------- program constants
MIN_DURATION_SEC == 60
MAX_DURATION_SEC == 86400
MAX_PASSENGERS == 9
MAX_TRIP_DISTANCE == 500
MAX_AMOUNT == 10000
MAX_SPEED_KMH == 200
\* MILES_TO_KM = 1.60934, in units of 1/100000.
MILES_TO_KM_E5 == 160934

\* ------------------------------------------------------------- raw values
\* A raw field of a source row, as the parser hands it over.
\*   null  : null / undefined (column absent)
\*   empty : ''
\*   text  : a string with no numeric prefix and no date reading ('abc')
\*   num   : a string or number whose comma-stripped text reads as v/Scale
\*   time  : a timestamp text or value reading as v milliseconds
RawNull == [k |-> "null", v |-> 0]
RawEmpty == [k |-> "empty", v |-> 0]
RawText == [k |-> "text", v |-> 0]
RawNum(v) == [k |-> "num", v |-> v]
RawTime(ms) == [k |-> "time", v |-> ms]

\* JavaScript values produced by the parsers.
JsNull == [t |-> "null", n |-> 0]
JsNaN == [t |-> "nan", n |-> 0]
JsNum(n) == [t |-> "num", n |-> n]
JsDate(ms) == [t |-> "date", n |-> ms]

\* Truncation toward zero of a fixed-point value to an integer (parseInt).
TruncToInt(v) == IF v >= 0 THEN v \div Scale ELSE -((-v) \div Scale)

\* parseFloat-based read; the result is in fixed point, as is def.
parseNum(val, def) ==
    IF val.k \in {"null", "empty"} THEN def
    ELSE IF val.k = "num" THEN JsNum(val.v)
    ELSE def

\* parseInt-based read; the result is a plain integer, as is def.
parseIntStrict(val, def) ==
    IF val.k \in {"null", "empty"} THEN def
    ELSE IF val.k = "num" THEN JsNum(TruncToInt(val.v))
    ELSE def

parseTimestamp(val) ==
    IF val.k \in {"null", "empty"} THEN JsNull
    ELSE IF val.k = "time" THEN JsDate(val.v)
    ELSE JsNull

\* Variant: the seconds are cut, not rounded.
RoundSec_floor(ms) == ms \div 1000

\* Math.round(ms / 1000): nearest integer, halves toward +infinity.
RoundSec(ms) == (ms + 500) \div 1000

\* ------------------------------------------------------------ zone snapshot
\* The zones table the run reads: location_id -> borough.
ZoneTable == (1 :> "Manhattan") @@ (2 :> "Queens") @@ (3 :> "")

\* The module-level zoneMap: null until loadZoneMap has run.
ZoneMapNull == [loaded |-> FALSE, map |-> <<>>]
loadZoneMap == [loaded |-> TRUE, map |-> ZoneTable]

\* zoneMap.has(x) for a parsed id x (NaN is never a key).
ZoneMapHas(zm, x) == x.t = "num" /\ x.n \in DOMAIN zm.map

\* ---------------------------------------------------------------- validator
Reject(reason) ==
    [ok |-> FALSE, reason |-> reason, durationSec |-> 0, tripDistance |-> 0,
     fareAmount |-> 0, totalAmount |-> 0, pu |-> 0, do |-> 0,
     pickup |-> 0, dropoff |-> 0, passengers |-> 0]

\* Variant: only the pickup zone is looked up.
ZoneUnknown_pickupOnly(zm, pu, doLoc) == ~zm.loaded \/ ~ZoneMapHas(zm, pu)

\* !zoneMap || !zoneMap.has(pu) || !zoneMap.has(doLoc)
ZoneUnknown(zm, pu, doLoc) ==
    ~zm.loaded \/ ~ZoneMapHas(zm, pu) \/ ~ZoneMapHas(zm, doLoc)

\* Variant: the upper limit is not enforced.
AmountOutOfRange_noCeiling(a) == a < 0

\* fareAmount < 0 || fareAmount > 10000, and the same for totalAmount
AmountOutOfRange(a) == a < 0 \/ a > MAX_AMOUNT * Scale

\* Variant: the distance check runs before the passenger check.
isValidTrip_distanceFirst(row, zm) ==
    LET pu == parseIntStrict(row.PULocationID, JsNaN)
        doLoc == parseIntStrict(row.DOLocationID, JsNaN)
        pickup == parseTimestamp(row.tpep_pickup_datetime)
        dropoff == parseTimestamp(row.tpep_dropoff_datetime)
        durationSec == RoundSec(dropoff.n - pickup.n)
        passengers == parseIntStrict(row.passenger_count, JsNum(-1))
        tripDistance == parseNum(row.trip_distance, JsNum(-Scale))
        fareAmount == parseNum(row.fare_amount, JsNum(-Scale))
        totalAmount == parseNum(row.total_amount, JsNum(-Scale))
    IN  IF ZoneUnknown(zm, pu, doLoc)
            THEN Reject("invalid_or_unknown_zone")
        ELSE IF pickup.t = "null" \/ dropoff.t = "null"
            THEN Reject("invalid_timestamp")
        ELSE IF durationSec < MIN_DURATION_SEC \/ durationSec > MAX_DURATION_SEC
            THEN Reject("duration_out_of_range")
        ELSE IF tripDistance.n < 0 \/ tripDistance.n > MAX_TRIP_DISTANCE * Scale
            THEN Reject("trip_distance_out_of_range")
        ELSE IF passengers.n < 0 \/ passengers.n > MAX_PASSENGERS
            THEN Reject("invalid_passenger_count")
        ELSE IF AmountOutOfRange(fareAmount.n)
            THEN Reject("fare_out_of_range")
        ELSE IF AmountOutOfRange(totalAmount.n)
            THEN Reject("total_amount_out_of_range")
        ELSE [ok |-> TRUE, reason |-> "", durationSec |-> durationSec,
              tripDistance |-> tripDistance.n, fareAmount |-> fareAmount.n,
              totalAmount |-> totalAmount.n, pu |-> pu.n, do |-> doLoc.n,
              pickup |-> pickup.n, dropoff |-> dropoff.n,
              passengers |-> passengers.n]

\* function isValidTrip(row): the checks in source order.
isValidTrip(row, zm) ==
    LET pu == parseIntStrict(row.PULocationID, JsNaN)
        doLoc == parseIntStrict(row.DOLocationID, JsNaN)
        pickup == parseTimestamp(row.tpep_pickup_datetime)
        dropoff == parseTimestamp(row.tpep_dropoff_datetime)
        durationSec == RoundSec(dropoff.n - pickup.n)
        passengers == parseIntStrict(row.passenger_count, JsNum(-1))
        tripDistance == parseNum(row.trip_distance, JsNum(-Scale))
        fareAmount == parseNum(row.fare_amount, JsNum(-Scale))
        totalAmount == parseNum(row.total_amount, JsNum(-Scale))
    IN  IF ZoneUnknown(zm, pu, doLoc)
            THEN Reject("invalid_or_unknown_zone")
        ELSE IF pickup.t = "null" \/ dropoff.t = "null"
            THEN Reject("invalid_timestamp")
        ELSE IF durationSec < MIN_DURATION_SEC \/ durationSec > MAX_DURATION_SEC
            THEN Reject("duration_out_of_range")
        ELSE IF passengers.n < 0 \/ passengers.n > MAX_PASSENGERS
            THEN Reject("invalid_passenger_count")
        ELSE IF tripDistance.n < 0 \/ tripDistance.n > MAX_TRIP_DISTANCE * Scale
            THEN Reject("trip_distance_out_of_range")
        ELSE IF AmountOutOfRange(fareAmount.n)
            THEN Reject("fare_out_of_range")
        ELSE IF AmountOutOfRange(totalAmount.n)
            THEN Reject("total_amount_out_of_range")
        ELSE [ok |-> TRUE, reason |-> "", durationSec |-> durationSec,
              tripDistance |-> tripDistance.n, fareAmount |-> fareAmount.n,
              totalAmount |-> totalAmount.n, pu |-> pu.n, do |-> doLoc.n,
              pickup |-> pickup.n, dropoff |-> dropoff.n,
              passengers |-> passengers.n]

\* ----------------------------------------------------------------- enricher
\* A quotient of two numbers, kept as the fraction num/den (den > 0).
Ratio(n, d) == [num |-> n, den |-> d]

\* Variant: a zero total is divided by.
TipRate_unguarded(tipAmount, totalAmount) == Ratio(tipAmount, totalAmount)

\* totalAmount > 0 ? tipAmount / totalAmount : 0
TipRate(tipAmount, totalAmount) ==
    IF totalAmount > 0 THEN Ratio(tipAmount, totalAmount) ELSE Ratio(0, 1)

\* ctx.tripDistance * MILES_TO_KM, in fixed point (cut to 1/Scale km).
DistanceKm(tripDistance) == (tripDistance * MILES_TO_KM_E5) \div 100000

\* durationHours > 0 ? distanceKm / durationHours : 0, with
\* durationHours = durationSec / 3600; the value is in 1/Scale km/h.
SpeedKmh(distanceKm, durationSec) ==
    IF durationSec > 0 THEN Ratio(distanceKm * 3600, durationSec) ELSE Ratio(0, 1)

\* Variant: the speed is stored as computed.
CapSpeed_none(speed) == speed

\* Math.min(200, speedKmh)
CapSpeed(speed) ==
    IF speed.num > MAX_SPEED_KMH * Scale * speed.den
    THEN Ratio(MAX_SPEED_KMH * Scale, 1) ELSE speed

\* distanceKm > 0 ? ctx.fareAmount / distanceKm : 0
FarePerKm(fareAmount, distanceKm) ==
    IF distanceKm > 0 THEN Ratio(fareAmount, distanceKm) ELSE Ratio(0, 1)

\* Variant: an empty borough counts as a borough of its own.
TripType_emptyCounts(pickupBorough, dropoffBorough) ==
    IF pickupBorough # dropoffBorough THEN "Cross Borough" ELSE "Within Borough"

\* let tripType = 'Within Borough'; if (pickupBorough && dropoffBorough &&
\* pickupBorough !== dropoffBorough) tripType = 'Cross Borough'
TripType(pickupBorough, dropoffBorough) ==
    IF pickupBorough # "" /\ dropoffBorough # "" /\ pickupBorough # dropoffBorough
    THEN "Cross Borough" ELSE "Within Borough"

\* The persisted trip shape (the fields the properties below read).
enrich(row, ctx, zm) ==
    LET tipAmount == parseNum(row.tip_amount, JsNum(0)).n
        distanceKm == DistanceKm(ctx.tripDistance)
        pickupBorough == IF ctx.pu \in DOMAIN zm.map THEN zm.map[ctx.pu] ELSE ""
        dropoffBorough == IF ctx.do \in DOMAIN zm.map THEN zm.map[ctx.do] ELSE ""
    IN  [tpep_pickup_datetime |-> ctx.pickup,
         tpep_dropoff_datetime |-> ctx.dropoff,
         passenger_count |-> ctx.passengers,
         trip_distance |-> ctx.tripDistance,
         pu_location_id |-> ctx.pu,
         do_location_id |-> ctx.do,
         fare_amount |-> ctx.fareAmount,
         extra |-> parseNum(row.extra, JsNum(0)).n,
         mta_tax |-> parseNum(row.mta_tax, JsNum(0)).n,
         tip_amount |-> tipAmount,
         tolls_amount |-> parseNum(row.tolls_amount, JsNum(0)).n,
         improvement_surcharge |-> parseNum(row.improvement_surcharge, JsNum(0)).n,
         total_amount |-> ctx.totalAmount,
         congestion_surcharge |-> parseNum(row.congestion_surcharge, JsNum(0)).n,
         trip_duration_sec |-> ctx.durationSec,
         speed_kmh |-> CapSpeed(SpeedKmh(distanceKm, ctx.durationSec)),
         fare_per_km |-> FarePerKm(ctx.fareAmount, distanceKm),
         tip_rate |-> TipRate(tipAmount, ctx.totalAmount),
         pickup_borough |-> pickupBorough,
         dropoff_borough |-> dropoffBorough,
         trip_type |-> TripType(pickupBorough, dropoffBorough)]

\* ------------------------------------------------------------ trip sources
\* The reference pickup instant, in milliseconds.
T0 == 3600 * 1000

\* A well-formed source row: zone 1 -> zone 2, 20 minutes, 5 miles,
\* fare 20, total 25, tip 5, one passenger, no surcharges given.
BaseRow ==
    [PULocationID |-> RawNum(1 * Scale), DOLocationID |-> RawNum(2 * Scale),
     tpep_pickup_datetime |-> RawTime(T0),
     tpep_dropoff_datetime |-> RawTime(T0 + 1200000),
     passenger_count |-> RawNum(1 * Scale), trip_distance |-> RawNum(5 * Scale),
     fare_amount |-> RawNum(20 * Scale), total_amount |-> RawNum(25 * Scale),
     tip_amount |-> RawNum(5 * Scale), extra |-> RawEmpty, mta_tax |-> RawEmpty,
     tolls_amount |-> RawEmpty, improvement_surcharge |-> RawEmpty,
     congestion_surcharge |-> RawEmpty]

\* The rows a trip source of the pipeline specification is made of.
SourceRows ==
    { BaseRow,
      [BaseRow EXCEPT !.extra = RawNum(-1 * Scale),
                      !.tpep_dropoff_datetime = RawTime(T0 + 1200400)],
      [BaseRow EXCEPT !.PULocationID = RawNum(999 * Scale)],
      [BaseRow EXCEPT !.tpep_dropoff_datetime = RawTime(T0 + 30500)] }

\* A timestamp as rowFromParquetRecord renders it: ISO text cut after the
\* seconds (the milliseconds are dropped), '' for null.
ParquetTimestamp(val) ==
    IF val.k = "null" THEN RawEmpty
    ELSE RawTime(val.v - (val.v % 1000))

rowFromParquetRecord(rec) ==
    [rec EXCEPT !.tpep_pickup_datetime = ParquetTimestamp(rec.tpep_pickup_datetime),
                !.tpep_dropoff_datetime = ParquetTimestamp(rec.tpep_dropoff_datetime)]

\* ------------------------------------------------------------------- state
VARIABLES
    format,      \* "csv" | "parquet": what findTripFile found
    zoneMap,     \* the module-level zone snapshot
    pc,          \* importData: "start" | "importing" | "released"
    pos,         \* csv: "flowing" | "ended" | "errored";
                 \* parquet: "next" | "flush" | "final" | "returned" | "thrown"
    source,      \* the records the source has handed over so far
    processed, valid, invalid,
    batch,       \* the in-memory batch: <<[src, trip]>>
    issued,      \* every insertBatch query sent on the client, in order
    completed,   \* how many of them the client has finished (FIFO)
    failed,      \* indices into issued of the queries that failed
    trips,       \* the trips table: <<[src, trip]>>
    log,         \* the exclusion log: <<[reason, raw]>>
    logFailed,   \* source positions whose append to the log threw
    promise,     \* the import promise: "pending" | "resolved" | "rejected"
    stats,       \* the summary it resolved with
    unhandled,   \* a handler's promise rejected with nobody awaiting it
    exited,      \* the process has terminated
    probeRow, probeResult, probeTrip, probePc,  \* validator specification
    \* importZones.js
    lookupRows,  \* the rows of taxi_zone_lookup.csv
    shapefile,   \* [exists, features]: the taxi_zones .shp/.dbf pair
    zones,       \* the zones table, in insertion order
    tripsRef,    \* some trips row references a zones row
    zpc,         \* run: "off" | "start" | "load" | "read" | "update" |
                 \*      "release" | "done" | "failed"
    zi,          \* loop position inside the current phase
    centroids,   \* updateCentroidsFromShapefile: the collected centroids
    count,       \* what loadZonesFromLookup returned
    updated,     \* what updateCentroidsFromShapefile returned
    loadedZones, \* the zones table as loadZonesFromLookup left it
    matched,     \* location_ids whose UPDATE found a row in this run
    runs,        \* the zones table after each completed run
    \* TripClusterer
    kmData,      \* kMeans: the data argument (the points, in input order)
    kmK,         \* the k argument
    kmMaxIter,   \* the maxIterations argument
    kmPc,        \* "off" | "call" | "init" | "loop" | "update" | "converge" |
                 \* "filter" | "returned"
    kmChosen,    \* initializeCentroids: the indices pushed so far, in order
    kmCentroids, \* centroids
    kmClusters,  \* clusters: each a sequence of indices into kmData
    kmNew,       \* newCentroids of the current iteration
    kmIteration, \* iteration
    kmSteps,     \* how many assignment steps have run
    kmResult     \* the returned list of clusters

pipeVars == <<format, pc, pos, source, processed, valid, invalid, batch, issued,
              completed, failed, trips, log, logFailed, promise, stats,
              unhandled, exited>>
probeVars == <<probeRow, probeResult, probeTrip, probePc>>
zoneVars == <<lookupRows, shapefile, zones, tripsRef, zpc, zi, centroids, count,
              updated, loadedZones, matched, runs>>
kmVars == <<kmData, kmK, kmMaxIter, kmPc, kmChosen, kmCentroids, kmClusters,
            kmNew, kmIteration, kmSteps, kmResult>>
vars == <<pipeVars, zoneMap, probeVars, zoneVars, kmVars>>

NoStats == [processed |-> -1, valid |-> -1, invalid |-> -1]
NoResult == Reject("")
NoTrip == enrich(BaseRow, NoResult, ZoneMapNull)

PipeInit ==
    /\ pc = "start" /\ pos = "idle"
    /\ source = <<>> /\ processed = 0 /\ valid = 0 /\ invalid = 0
    /\ batch = <<>> /\ issued = <<>> /\ completed = 0 /\ failed = {}
    /\ trips = <<>> /\ log = <<>> /\ logFailed = {}
    /\ promise = "pending" /\ stats = NoStats
    /\ unhandled = FALSE /\ exited = FALSE

NoShapefile == [exists |-> FALSE, features |-> <<>>]

\* The zone loader's state when it is not the program under study.
ZoneRunInit ==
    /\ zones = <<>> /\ tripsRef = FALSE
    /\ zi = 0 /\ centroids = <<>> /\ count = 0 /\ updated = 0
    /\ loadedZones = <<>> /\ matched = {} /\ runs = <<>>

ZoneOff ==
    /\ lookupRows = <<>> /\ shapefile = NoShapefile
    /\ zpc = "off" /\ ZoneRunInit

\* The clusterer's working state before kMeans is entered.
KmRunInit ==
    /\ kmChosen = <<>> /\ kmCentroids = <<>> /\ kmClusters = <<>>
    /\ kmNew = <<>> /\ kmIteration = 0 /\ kmSteps = 0 /\ kmResult = <<>>

KmOff ==
    /\ kmData = <<>> /\ kmK = 0 /\ kmMaxIter = 0 /\ kmPc = "off" /\ KmRunInit

Init ==
    /\ ZoneOff /\ KmOff
    /\ format \in {"csv", "parquet"}
    /\ zoneMap = ZoneMapNull
    /\ PipeInit
    /\ probeRow = BaseRow /\ probeResult = NoResult /\ probeTrip = NoTrip
    /\ probePc = "off"

\* ----------------------------------------------------------------- helpers
\* Variant: the cap is reached one rejection early.
WithinLogCap_strict(n) == n < LOG_CAP

\* Variant: no cap at all.
WithinLogCap_off(n) == TRUE

\* if (invalid <= 5000) logExclusion(...)
WithinLogCap(n) == n <= LOG_CAP

\* if (batch.length >= BATCH_SIZE)
BatchFull(b) == Len(b) >= BATCH_SIZE

\* Variant: the lines written stand in for the rows excluded.
Summary_loggedOnly == [processed |-> processed, valid |-> valid, invalid |-> Len(log)]

\* resolve({ processed, valid, invalid }) / return { processed, valid, invalid }
Summary == [processed |-> processed, valid |-> valid, invalid |-> invalid]

Flushing == completed < Len(issued)

\* importData: pool.connect(), zoneMap = await loadZoneMap(client), then the
\* import routine of the found format starts.
LoadZoneMap ==
    /\ pc = "start" /\ ~exited
    /\ zoneMap' = loadZoneMap
    /\ pc' = "importing"
    /\ pos' = IF format = "csv" THEN "flowing" ELSE "next"
    /\ UNCHANGED <<kmVars, zoneVars, format, source, processed, valid, invalid, batch, issued,
                   completed, failed, trips, log, logFailed, promise, stats,
                   unhandled, exited, probeVars>>

\* One line of the exclusion log (the timestamp is left out).
LogLine(reason, raw) == [reason |-> reason, raw |-> raw]

\* What batch.push(enrich(row, result)) appends for the n-th source record.
Enriched(n, row, result) == [src |-> n, trip |-> enrich(row, result, zoneMap)]

\* insertBatch(client, batch): the query carries the batch as it is now.
Query(b, waiter) == [rows |-> b, waiter |-> waiter]

\* ---------------------------------------------------------------- CSV path
\* .on('data', async (row) => {...}): the stream hands over one more row.
\* The handler's promise is dropped by the emitter, so the stream keeps
\* flowing whatever the handler awaits.
CsvData(rec) ==
    /\ pc = "importing" /\ format = "csv" /\ pos = "flowing" /\ ~exited
    /\ processed < MaxRows
    /\ LET n == processed + 1
           result == isValidTrip(rec, zoneMap)
           b == Append(batch, Enriched(n, rec, result))
       IN  /\ processed' = n
           /\ source' = Append(source, rec)
           /\ IF ~result.ok
              THEN /\ invalid' = invalid + 1
                   /\ IF WithinLogCap(invalid + 1)
                      THEN \/ /\ log' = Append(log, LogLine(result.reason, rec))
                              /\ UNCHANGED <<logFailed, unhandled>>
                           \/ /\ Cardinality(logFailed) < MaxLogFailures
                              /\ logFailed' = logFailed \cup {n}
                              /\ unhandled' = TRUE
                              /\ UNCHANGED log
                      ELSE UNCHANGED <<log, logFailed, unhandled>>
                   /\ UNCHANGED <<valid, batch, issued>>
              ELSE /\ batch' = b
                   /\ valid' = valid + 1
                   /\ issued' = IF BatchFull(b)
                                THEN Append(issued, Query(b, "csv_data"))
                                ELSE issued
                   /\ UNCHANGED <<invalid, log, logFailed, unhandled>>
    /\ UNCHANGED <<kmVars, zoneVars, format, zoneMap, pc, pos, completed, failed, trips, promise,
                   stats, exited, probeVars>>

\* .on('end', async () => {...})
CsvEnd ==
    /\ pc = "importing" /\ format = "csv" /\ pos = "flowing" /\ ~exited
    /\ pos' = "ended"
    /\ IF Len(batch) > 0
       THEN /\ issued' = Append(issued, Query(batch, "csv_end"))
            /\ UNCHANGED <<promise, stats>>
       ELSE /\ promise' = "resolved"
            /\ stats' = Summary
            /\ UNCHANGED issued
    /\ UNCHANGED <<kmVars, zoneVars, format, zoneMap, pc, source, processed, valid, invalid, batch,
                   completed, failed, trips, log, logFailed, unhandled, exited,
                   probeVars>>

\* .on('error', reject): the parser stream fails.
CsvError ==
    /\ pc = "importing" /\ format = "csv" /\ pos = "flowing" /\ ~exited
    /\ pos' = "errored"
    /\ promise' = "rejected"
    /\ UNCHANGED <<kmVars, zoneVars, format, zoneMap, pc, source, processed, valid, invalid, batch,
                   issued, completed, failed, trips, log, logFailed, stats,
                   unhandled, exited, probeVars>>

\* ------------------------------------------------------------ Parquet path
\* The typed records a Parquet cursor can yield.
ParquetRecords ==
    {r \in SourceRows : /\ r.tpep_pickup_datetime.k \in {"null", "time"}
                        /\ r.tpep_dropoff_datetime.k \in {"null", "time"}}

\* while ((record = await cursor.next())) {...}: one pass of the loop body,
\* up to its next await.
ParquetNext(rec) ==
    /\ pc = "importing" /\ format = "parquet" /\ pos = "next" /\ ~exited
    /\ processed < MaxRows
    /\ LET n == processed + 1
           row == rowFromParquetRecord(rec)
           result == isValidTrip(row, zoneMap)
           b == Append(batch, Enriched(n, row, result))
       IN  /\ processed' = n
           /\ source' = Append(source, rec)
           /\ IF ~result.ok
              THEN /\ invalid' = invalid + 1
                   /\ IF WithinLogCap(invalid + 1)
                      THEN \/ /\ log' = Append(log, LogLine(result.reason, row))
                              /\ UNCHANGED <<logFailed, promise, pos>>
                           \/ /\ Cardinality(logFailed) < MaxLogFailures
                              /\ logFailed' = logFailed \cup {n}
                              /\ promise' = "rejected"
                              /\ pos' = "thrown"
                              /\ UNCHANGED log
                      ELSE UNCHANGED <<log, logFailed, promise, pos>>
                   /\ UNCHANGED <<valid, batch, issued>>
              ELSE /\ batch' = b
                   /\ valid' = valid + 1
                   /\ IF BatchFull(b)
                      THEN /\ issued' = Append(issued, Query(b, "parquet_loop"))
                           /\ pos' = "flush"
                      ELSE UNCHANGED <<issued, pos>>
                   /\ UNCHANGED <<invalid, log, logFailed, promise>>
    /\ UNCHANGED <<kmVars, zoneVars, format, zoneMap, pc, completed, failed, trips, stats,
                   unhandled, exited, probeVars>>

\* cursor.next() yields null: reader.close(), the final flush, the return.
ParquetEof ==
    /\ pc = "importing" /\ format = "parquet" /\ pos = "next" /\ ~exited
    /\ IF Len(batch) > 0
       THEN /\ issued' = Append(issued, Query(batch, "parquet_final"))
            /\ pos' = "final"
            /\ UNCHANGED <<promise, stats>>
       ELSE /\ promise' = "resolved"
            /\ stats' = Summary
            /\ pos' = "returned"
            /\ UNCHANGED issued
    /\ UNCHANGED <<kmVars, zoneVars, format, zoneMap, pc, source, processed, valid, invalid, batch,
                   completed, failed, trips, log, logFailed, unhandled, exited,
                   probeVars>>

\* ------------------------------------------------------------ the database
\* The client runs its queries one at a time, first in first out.  The oldest
\* outstanding insert succeeds; the code awaiting it then resumes.
QueryOk ==
    /\ Flushing /\ ~exited
    /\ LET q == issued[completed + 1]
       IN  /\ completed' = completed + 1
           /\ trips' = trips \o q.rows
           /\ CASE q.waiter = "csv_data" ->
                     /\ batch' = <<>>
                     /\ UNCHANGED <<promise, stats, pos>>
                [] q.waiter = "csv_end" ->
                     /\ promise' = "resolved"
                     /\ stats' = Summary
                     /\ UNCHANGED <<batch, pos>>
                [] q.waiter = "parquet_loop" ->
                     /\ batch' = <<>>
                     /\ pos' = "next"
                     /\ UNCHANGED <<promise, stats>>
                [] q.waiter = "parquet_final" ->
                     /\ promise' = "resolved"
                     /\ stats' = Summary
                     /\ pos' = "returned"
                     /\ UNCHANGED batch
    /\ UNCHANGED <<kmVars, zoneVars, format, zoneMap, pc, source, processed, valid, invalid, issued,
                   failed, log, logFailed, unhandled, exited, probeVars>>

\* The oldest outstanding insert fails; the await throws into its waiter.
QueryFail ==
    /\ Flushing /\ ~exited
    /\ Cardinality(failed) < MaxDbFailures
    /\ LET q == issued[completed + 1]
       IN  /\ completed' = completed + 1
           /\ failed' = failed \cup {completed + 1}
           /\ IF q.waiter \in {"csv_data", "csv_end"}
              THEN /\ unhandled' = TRUE
                   /\ UNCHANGED <<promise, pos>>
              ELSE /\ promise' = "rejected"
                   /\ pos' = "thrown"
                   /\ UNCHANGED unhandled
    /\ UNCHANGED <<kmVars, zoneVars, format, zoneMap, pc, source, processed, valid, invalid, batch,
                   issued, trips, log, logFailed, stats, exited, probeVars>>

\* ---------------------------------------------------------------- importData
\* The import promise has settled: finally { client.release(); pool.end() },
\* and on a rejection the top-level catch exits the process.
Release ==
    /\ pc = "importing" /\ promise # "pending" /\ ~exited
    /\ pc' = "released"
    /\ exited' = (promise = "rejected")
    /\ UNCHANGED <<kmVars, zoneVars, format, zoneMap, pos, source, processed, valid, invalid, batch,
                   issued, completed, failed, trips, log, logFailed, promise,
                   stats, unhandled, probeVars>>

\* An unhandled rejection terminates the process on runtimes whose default
\* is to throw; on the others it is only reported and the run goes on.
UnhandledRejectionExit ==
    /\ unhandled /\ ~exited
    /\ exited' = TRUE
    /\ UNCHANGED <<kmVars, zoneVars, format, zoneMap, pc, pos, source, processed, valid, invalid,
                   batch, issued, completed, failed, trips, log, logFailed,
                   promise, stats, unhandled, probeVars>>

Next ==
    \/ LoadZoneMap
    \/ \E rec \in SourceRows : CsvData(rec)
    \/ CsvEnd
    \/ CsvError
    \/ \E rec \in ParquetRecords : ParquetNext(rec)
    \/ ParquetEof
    \/ QueryOk
    \/ QueryFail
    \/ Release
    \/ UnhandledRejectionExit

Spec == Init /\ [][Next]_vars

\* ------------------------------------------------ validator specification
\* isValidTrip and enrich applied to one row drawn from a wide set of rows,
\* with the zone snapshot loaded or not yet loaded.
ZoneIdValues ==
    {RawNull, RawEmpty, RawText, RawNum(1 * Scale), RawNum(2 * Scale + Scale \div 2),
     RawNum(999 * Scale)}
PickupValues == {RawNull, RawText, RawTime(T0)}
DropoffValues ==
    {RawEmpty, RawTime(T0 - 1000), RawTime(T0 + 59499), RawTime(T0 + 59500),
     RawTime(T0 + 86400499), RawTime(T0 + 86400500)}
PassengerValues ==
    {RawEmpty, RawNum(-1 * Scale), RawNum(9 * Scale + Scale \div 2), RawNum(10 * Scale)}
DistanceValues ==
    {RawText, RawNum(-1), RawNum(MAX_TRIP_DISTANCE * Scale),
     RawNum(MAX_TRIP_DISTANCE * Scale + 1)}
AmountValues ==
    {RawNull, RawNum(-1), RawNum(0), RawNum(MAX_AMOUNT * Scale),
     RawNum(MAX_AMOUNT * Scale + 1)}
ExtraValues == {RawEmpty, RawText, RawNum(-1), RawNum(5 * Scale)}

\* Rows that vary every validated field.
ValidationRows ==
    {[BaseRow EXCEPT !.PULocationID = pu, !.DOLocationID = do,
                     !.tpep_pickup_datetime = pk, !.tpep_dropoff_datetime = dr,
                     !.passenger_count = pa, !.trip_distance = di,
                     !.fare_amount = fa, !.total_amount = to] :
        pu \in ZoneIdValues, do \in {RawNull, RawNum(2 * Scale), RawNum(4 * Scale)},
        pk \in PickupValues, dr \in DropoffValues, pa \in PassengerValues,
        di \in DistanceValues, fa \in AmountValues \ {RawNum(0)},
        to \in AmountValues \ {RawNum(0)}}

\* Rows that pass or fail on the amounts and vary the unvalidated amounts.
MonetaryRows ==
    {[BaseRow EXCEPT !.fare_amount = fa, !.total_amount = to,
                     !.tip_amount = ti, !.extra = ex, !.mta_tax = mt,
                     !.tolls_amount = tl, !.improvement_surcharge = im,
                     !.congestion_surcharge = co] :
        fa \in AmountValues, to \in AmountValues,
        ti \in ExtraValues, ex \in ExtraValues,
        mt \in {RawEmpty, RawNum(-1)}, tl \in {RawEmpty, RawNum(-1)},
        im \in {RawEmpty, RawNum(-1)}, co \in {RawEmpty, RawNum(-1)}}

\* Rows that vary the pickup and dropoff zone over the zones table.
BoroughRows ==
    {[BaseRow EXCEPT !.PULocationID = RawNum(pu * Scale),
                     !.DOLocationID = RawNum(do * Scale)] :
        pu \in DOMAIN ZoneTable, do \in DOMAIN ZoneTable}

ProbeRows == ValidationRows \cup MonetaryRows \cup BoroughRows

\* Validator contexts a direct caller of the exported enrich can pass.
DirectContexts ==
    {[ok |-> TRUE, reason |-> "", durationSec |-> sec, tripDistance |-> di,
      fareAmount |-> 20 * Scale, totalAmount |-> to, pu |-> pu, do |-> 2,
      pickup |-> T0, dropoff |-> T0 + 1000 * sec, passengers |-> 1] :
        sec \in {0, MIN_DURATION_SEC}, di \in {0, MAX_TRIP_DISTANCE * Scale},
        to \in {0, 25 * Scale}, pu \in {1, 999}}

InitRow ==
    /\ ZoneOff /\ KmOff
    /\ format = "csv"
    /\ zoneMap \in {ZoneMapNull, loadZoneMap}
    /\ PipeInit
    /\ probeRow \in ProbeRows
    /\ probeResult = NoResult /\ probeTrip = NoTrip
    /\ probePc = "row"

\* const result = isValidTrip(row)
ValidateRow ==
    /\ probePc = "row"
    /\ probeResult' = isValidTrip(probeRow, zoneMap)
    /\ probePc' = "validated"
    /\ UNCHANGED <<kmVars, zoneVars, pipeVars, zoneMap, probeRow, probeTrip>>

\* enrich(row, result), called on accepted rows only
EnrichRow ==
    /\ probePc = "validated" /\ probeResult.ok
    /\ probeTrip' = enrich(probeRow, probeResult, zoneMap)
    /\ probePc' = "enriched"
    /\ UNCHANGED <<kmVars, zoneVars, pipeVars, zoneMap, probeRow, probeResult>>

\* enrich(row, ctx) called through module.exports with a context of the
\* caller's making (the zone snapshot being loaded).
EnrichDirect ==
    /\ probePc = "row" /\ zoneMap.loaded
    /\ probeRow \in BoroughRows
    /\ \E ctx \in DirectContexts :
          /\ probeResult' = ctx
          /\ probeTrip' = enrich(probeRow, ctx, zoneMap)
    /\ probePc' = "direct"
    /\ UNCHANGED <<kmVars, zoneVars, pipeVars, zoneMap, probeRow>>

NextRow == ValidateRow \/ EnrichRow \/ EnrichDirect

SpecRow == InitRow /\ [][NextRow]_vars

\* ------------------------------------------------------------- properties
\* The row the validator sees for a source record of the run's format.
RowAsRead(rec) == IF format = "parquet" THEN rowFromParquetRecord(rec) ELSE rec

\* Source positions of the accepted and of the rejected rows so far.
AcceptedSrc == {i \in 1..Len(source) : isValidTrip(RowAsRead(source[i]), loadZoneMap).ok}
RejectedSrc == (1..Len(source)) \ AcceptedSrc

\* How many rows of the trips table come from source position i.
TimesInserted(i) == Cardinality({j \in 1..Len(trips) : trips[j].src = i})

\* How many of the queries sent so far carry source position i.
TimesSent(i) ==
    Cardinality({j \in 1..Len(issued) :
                    \E m \in 1..Len(issued[j].rows) : issued[j].rows[m].src = i})

NoFault == failed = {} /\ logFailed = {}

\* C1: when a run completes without error, every accepted row is in the
\* trips table exactly once (never twice, never missing), on either path.
C1_AcceptedInsertedExactlyOnce ==
    (promise = "resolved" /\ NoFault) =>
        \A i \in AcceptedSrc : TimesInserted(i) = 1

\* C2: while an insertBatch flush is outstanding no further source row is
\* taken in, on either path.
C2_NoIntakeWhileFlushing ==
    [][Flushing => (processed' = processed /\ source' = source)]_vars

\* C3: the batch never holds more than BATCH_SIZE trips, every insert other
\* than the end-of-stream one carries exactly BATCH_SIZE trips, and no trip
\* is carried by two inserts.
C3_BatchBoundedOneInsertEach ==
    /\ Len(batch) <= BATCH_SIZE
    /\ \A j \in 1..Len(issued) :
          issued[j].waiter \in {"csv_data", "parquet_loop"}
              => Len(issued[j].rows) = BATCH_SIZE
    /\ \A i \in 1..Len(source) : TimesSent(i) <= 1

\* C4: the summary is returned only once the final flush and every earlier
\* flush have completed, and by then no accepted trip is left unflushed.
C4_SummaryAfterAllFlushes ==
    promise = "resolved" =>
        /\ ~Flushing
        /\ NoFault => \A i \in AcceptedSrc : TimesSent(i) >= 1

\* trips has only grown by appending.
IsPrefix(a, b) == Len(a) <= Len(b) /\ SubSeq(b, 1, Len(a)) = a

\* C5: once a batch insert has failed the import promise is rejected, no
\* further row is processed or inserted, and the rows already in the trips
\* table stay there.
C5_InsertFailureAborts ==
    [][/\ failed # {} => /\ promise = "rejected"
                         /\ processed' = processed
                         /\ trips' = trips
       /\ IsPrefix(trips, trips')]_vars

\* -------------------------------------------------- validator properties
ReasonCodes ==
    <<"invalid_or_unknown_zone", "invalid_timestamp", "duration_out_of_range",
      "invalid_passenger_count", "trip_distance_out_of_range",
      "fare_out_of_range", "total_amount_out_of_range">>

\* Whether check k (in the order of ReasonCodes) fails on a row, each check
\* taken on its own.
CheckFails(k, row, zm) ==
    LET pickup == parseTimestamp(row.tpep_pickup_datetime)
        dropoff == parseTimestamp(row.tpep_dropoff_datetime)
        sec == RoundSec(dropoff.n - pickup.n)
        passengers == parseIntStrict(row.passenger_count, JsNum(-1)).n
        distance == parseNum(row.trip_distance, JsNum(-Scale)).n
        fare == parseNum(row.fare_amount, JsNum(-Scale)).n
        total == parseNum(row.total_amount, JsNum(-Scale)).n
    IN  CASE k = 1 -> \/ ~zm.loaded
                      \/ ~ZoneMapHas(zm, parseIntStrict(row.PULocationID, JsNaN))
                      \/ ~ZoneMapHas(zm, parseIntStrict(row.DOLocationID, JsNaN))
          [] k = 2 -> pickup.t # "date" \/ dropoff.t # "date"
          [] k = 3 -> /\ pickup.t = "date" /\ dropoff.t = "date"
                      /\ (sec < MIN_DURATION_SEC \/ sec > MAX_DURATION_SEC)
          [] k = 4 -> passengers < 0 \/ passengers > MAX_PASSENGERS
          [] k = 5 -> distance < 0 \/ distance > MAX_TRIP_DISTANCE * Scale
          [] k = 6 -> fare < 0 \/ fare > MAX_AMOUNT * Scale
          [] k = 7 -> total < 0 \/ total > MAX_AMOUNT * Scale

FailedChecks(row, zm) == {k \in 1..7 : CheckFails(k, row, zm)}
FirstOf(F) == CHOOSE k \in F : \A j \in F : k <= j

\* C6: the reason isValidTrip returns is the code of the first failing check
\* in the order zone, timestamp, duration, passengers, distance, fare,
\* total, and the row is accepted iff no check fails.
C6_FirstFailingCheckDecides ==
    probePc # "row" =>
        LET F == FailedChecks(probeRow, zoneMap)
        IN  /\ probeResult.ok <=> F = {}
            /\ F # {} => probeResult.reason = ReasonCodes[FirstOf(F)]

C6_Witness ==
    /\ probePc = "validated"
    /\ {4, 5, 7} \subseteq FailedChecks(probeRow, zoneMap)
    /\ probeResult.reason = "invalid_passenger_count"

ZoneIdUnusable(raw) ==
    \/ raw.k \in {"null", "empty", "text"}
    \/ raw.k = "num" /\ TruncToInt(raw.v) \notin DOMAIN ZoneTable

MoneyFields ==
    {"fare_amount", "extra", "mta_tax", "tip_amount", "tolls_amount",
     "improvement_surcharge", "congestion_surcharge", "total_amount"}

\* C9 as claimed: every monetary field of a persisted trip is >= 0, and
\* fare_amount and total_amount are <= 10000.
C9_AllMoneyNonNegative ==
    probePc = "enriched" =>
        /\ \A f \in MoneyFields : probeTrip[f] >= 0
        /\ probeTrip.fare_amount <= MAX_AMOUNT * Scale
        /\ probeTrip.total_amount <= MAX_AMOUNT * Scale

\* What parseNum(raw, 0) reads.
ReadOrZero(raw) == IF raw.k = "num" THEN raw.v ELSE 0

\* C9 amended: fare_amount and total_amount of a persisted trip lie in
\* [0, 10000]; the other monetary fields are stored as read (0 when missing
\* or unreadable) with no range check, so they can be negative.
C9_FareAndTotalInRange ==
    probePc = "enriched" =>
        /\ \A f \in {"fare_amount", "total_amount"} :
              /\ probeTrip[f] >= 0 /\ probeTrip[f] <= MAX_AMOUNT * Scale
              /\ probeTrip[f] = probeRow[f].v
        /\ \A f \in MoneyFields \ {"fare_amount", "total_amount"} :
              probeTrip[f] = ReadOrZero(probeRow[f])

C9_Witness ==
    /\ probePc = "enriched"
    /\ probeTrip.fare_amount = MAX_AMOUNT * Scale
    /\ probeTrip.total_amount = 0
    /\ probeTrip.extra < 0
    /\ probeTrip.tip_amount = 0 /\ probeRow.tip_amount = RawText

\* --------------------------------------------------- exclusion-log properties
\* The rejected source positions in source order.
RECURSIVE RejectedUpTo(_)
RejectedUpTo(n) ==
    IF n = 0 THEN <<>>
    ELSE IF n \in RejectedSrc THEN Append(RejectedUpTo(n - 1), n)
    ELSE RejectedUpTo(n - 1)

\* The line a rejected source position is logged with.
LineOfRecord(rec) ==
    LET row == RowAsRead(rec)
    IN  LogLine(ReasonCodes[FirstOf(FailedChecks(row, loadZoneMap))], row)
LineFor(i) == LineOfRecord(source[i])

\* The lines of the positions in seq whose append did not throw.
LinesOf(seq) ==
    LET kept == SelectSeq(seq, LAMBDA i : i \notin logFailed)
    IN  [k \in 1..Len(kept) |-> LineFor(kept[k])]

FirstN(seq, n) == SubSeq(seq, 1, IF Len(seq) < n THEN Len(seq) ELSE n)

C12_RejectionNeverAborts ==
    /\ (failed = {} /\ pos # "errored") => (promise # "rejected" /\ ~exited)
    /\ \A i \in RejectedSrc : TimesSent(i) = 0

\* C13: after every handled row processed = valid + invalid, valid counts the
\* accepted and invalid the rejected rows handed over, and the summary a run
\* returns carries these counts.
C13_CountsAddUp ==
    /\ processed = valid + invalid
    /\ processed = Len(source)
    /\ valid = Cardinality(AcceptedSrc)
    /\ invalid = Cardinality(RejectedSrc)
    /\ promise = "resolved" =>
          /\ stats.processed = stats.valid + stats.invalid
          /\ stats = [processed |-> Len(source), valid |-> Cardinality(AcceptedSrc),
                      invalid |-> Cardinality(RejectedSrc)]

C13_Witness ==
    /\ promise = "resolved"
    /\ stats.valid >= 1
    /\ stats.invalid > LOG_CAP
    /\ stats.processed = MaxRows

\* ---------------------------------------------------- enricher properties
EnrichedStates == {"enriched", "direct"}

\* C14: speed_kmh of an enriched trip is min(200, distance_km /
\* (duration_sec / 3600)) with distance_km = trip_distance * 1.60934, is 0
\* when the duration is 0, and never exceeds 200.
C14_SpeedCapped ==
    probePc \in EnrichedStates =>
        LET sec == probeTrip.trip_duration_sec
            km == (probeTrip.trip_distance * MILES_TO_KM_E5) \div 100000
            s == probeTrip.speed_kmh
        IN  /\ s.den > 0
            /\ s.num <= MAX_SPEED_KMH * Scale * s.den
            /\ sec = 0 => s.num = 0
            /\ sec > 0 =>
                  IF km * 3600 > MAX_SPEED_KMH * Scale * sec
                  THEN s.num = MAX_SPEED_KMH * Scale * s.den
                  ELSE s = Ratio(km * 3600, sec)

C14_Witness ==
    /\ probePc = "enriched"
    /\ probeTrip.trip_distance = MAX_TRIP_DISTANCE * Scale
    /\ probeTrip.trip_duration_sec = MIN_DURATION_SEC
    /\ probeTrip.speed_kmh = Ratio(MAX_SPEED_KMH * Scale, 1)

\* C15: tip_rate of an enriched trip is tip_amount / total_amount when
\* total_amount > 0 and 0 otherwise, tip_amount being the row's tip read with
\* default 0 and total_amount the validator's total.
C15_TipRate ==
    probePc \in EnrichedStates =>
        LET tip == ReadOrZero(probeRow.tip_amount)
            total == probeResult.totalAmount
            r == probeTrip.tip_rate
        IN  /\ probeTrip.tip_amount = tip
            /\ probeTrip.total_amount = total
            /\ r.den > 0
            /\ IF total > 0 THEN r.num * total = tip * r.den ELSE r.num = 0

C15_Witness ==
    /\ probePc = "enriched"
    /\ probeTrip.tip_amount = 5 * Scale
    /\ probeTrip.total_amount = 25 * Scale
    /\ probeTrip.tip_rate.num * 5 = probeTrip.tip_rate.den

\* The borough the zones table gives for a zone id ('' when it has none).
BoroughOf(id) == IF id \in DOMAIN ZoneTable THEN ZoneTable[id] ELSE ""

\* C16: trip_type is "Cross Borough" iff the pickup and dropoff boroughs,
\* looked up in the snapshot by zone id, are both non-empty and different;
\* otherwise it is "Within Borough".
C16_TripType ==
    probePc \in EnrichedStates =>
        LET pb == BoroughOf(probeTrip.pu_location_id)
            db == BoroughOf(probeTrip.do_location_id)
        IN  /\ probeTrip.pickup_borough = pb
            /\ probeTrip.dropoff_borough = db
            /\ probeTrip.trip_type \in {"Cross Borough", "Within Borough"}
            /\ probeTrip.trip_type = "Cross Borough"
                  <=> (pb # "" /\ db # "" /\ pb # db)

C16_Witness ==
    /\ probePc = "enriched"
    /\ probeTrip.pickup_borough = ""
    /\ probeTrip.dropoff_borough = "Queens"
    /\ probeTrip.trip_type = "Within Borough"

\* ================================================== importZones.js
MaxLookupRows == 2
MaxFeatures == 2
MaxRuns == 2

\* PARAMETER["False_Easting",984250.0] of the NYLI projection definition.
FALSE_EASTING == 984250

\* Sequences over S of length at most n.
SeqsUpTo(S, n) == UNION {[1..k -> S] : k \in 0..n}

\* A text field is a sequence of pieces; " " is white space.
RECURSIVE TrimLeft(_)
TrimLeft(s) == IF s # <<>> /\ Head(s) = " " THEN TrimLeft(Tail(s)) ELSE s

RECURSIVE TrimRight(_)
TrimRight(s) ==
    IF s # <<>> /\ s[Len(s)] = " " THEN TrimRight(SubSeq(s, 1, Len(s) - 1)) ELSE s

\* (row.X || '').trim()
Trim(s) == TrimRight(TrimLeft(s))

\* parseInt(x, 10): NaN when the text has no numeric prefix.
parseInt10(val) == IF val.k = "num" THEN JsNum(TruncToInt(val.v)) ELSE JsNaN

\* ------------------------------------------------------------- lookup rows
LookupRow(id, b, z, sz) ==
    [LocationID |-> id, Borough |-> b, Zone |-> z, service_zone |-> sz]

LookupRowKinds ==
    {LookupRow(RawNum(1 * Scale), <<" ", "Manhattan", " ">>, <<"Alphabet City">>,
               <<"Yellow Zone">>),
     LookupRow(RawNum(1 * Scale), <<"Queens">>, <<"Astoria", " ">>, <<"Boro Zone">>),
     LookupRow(RawNum(2 * Scale), <<"Queens">>, <<"Jamaica">>, <<"Boro Zone">>),
     LookupRow(RawText, <<"Unknown">>, <<>>, <<>>)}

\* ---------------------------------------------------------------- geometry
\* A nested array found where a coordinate is expected (a MultiPolygon's
\* coordinates read as a Polygon's).
JsArr == [t |-> "arr", n |-> 0]

Point(x, y) == <<JsNum(x), JsNum(y)>>

\* f.geometry: absent, present without coordinates, or with coordinates.
NoGeometry == [present |-> FALSE, hasCoordinates |-> FALSE, coordinates |-> <<>>]
NoCoordinates == [present |-> TRUE, hasCoordinates |-> FALSE, coordinates |-> <<>>]
Polygon(rings) == [present |-> TRUE, hasCoordinates |-> TRUE, coordinates |-> rings]

Feature(id, geometry) == [LocationID |-> id, geometry |-> geometry]

SquareRing ==
    <<Point(FALSE_EASTING + 10, 20), Point(FALSE_EASTING + 30, 40),
      Point(FALSE_EASTING + 30, 21)>>

FeatureKinds ==
    {Feature(RawNum(1 * Scale), Polygon(<<SquareRing>>)),
     Feature(RawNum(9 * Scale), Polygon(<<SquareRing>>)),
     Feature(RawNum(2 * Scale), Polygon(<< <<>> >>)),
     Feature(RawNum(2 * Scale), Polygon(<< <<<<JsArr, JsArr>>, <<JsArr, JsArr>>>> >>)),
     Feature(RawNum(1 * Scale), NoCoordinates),
     Feature(RawNum(2 * Scale), NoGeometry),
     Feature(RawText, Polygon(<<SquareRing>>))}

NoCentroid == [ok |-> FALSE, x |-> 0, y |-> 0]

\* typeof p[0] === 'number' && typeof p[1] === 'number'
IsNumericPoint(p) == p[1].t = "num" /\ p[2].t = "num"

\* The sum of coordinate k over the numeric points of ring[1..i].
RECURSIVE SumCoord(_, _, _)
SumCoord(ring, k, i) ==
    IF i = 0 THEN 0
    ELSE SumCoord(ring, k, i - 1)
         + (IF IsNumericPoint(ring[i]) THEN ring[i][k].n ELSE 0)

\* Variant: a ring without numeric points has its centre at the origin.
polygonCentroid_origin(coords) ==
    IF coords = <<>> \/ coords[1] = <<>> THEN NoCentroid
    ELSE LET ring == coords[1]
             n == Cardinality({i \in 1..Len(ring) : IsNumericPoint(ring[i])})
         IN  IF n = 0 THEN [ok |-> TRUE, x |-> 0, y |-> 0]
             ELSE [ok |-> TRUE, x |-> SumCoord(ring, 1, Len(ring)) \div n,
                   y |-> SumCoord(ring, 2, Len(ring)) \div n]

\* The mean of the outer ring's numeric points, cut to whole units; null
\* (ok = FALSE) when there is no ring, an empty ring or no numeric point.
polygonCentroid(coords) ==
    IF coords = <<>> \/ coords[1] = <<>> THEN NoCentroid
    ELSE LET ring == coords[1]
             n == Cardinality({i \in 1..Len(ring) : IsNumericPoint(ring[i])})
         IN  IF n = 0 THEN NoCentroid
             ELSE [ok |-> TRUE, x |-> SumCoord(ring, 1, Len(ring)) \div n,
                   y |-> SumCoord(ring, 2, Len(ring)) \div n]

\* proj4('NYLI', 'WGS84', xy): stands for the reprojection by an injective
\* map that is not the identity (the false easting is taken off).
proj4(xy) == [lon |-> xy.x - FALSE_EASTING, lat |-> xy.y]

\* ------------------------------------------------------------- zones table
ZoneRow(id, b, z, sz) ==
    [location_id |-> id, borough |-> b, zone |-> z, service_zone |-> sz,
     centroid_lat |-> JsNull, centroid_lon |-> JsNull]

\* Variant: a plain INSERT that always adds a row.
Upsert_insertOnly(table, id, b, z, sz) == Append(table, ZoneRow(id, b, z, sz))

\* INSERT INTO zones ... ON CONFLICT (location_id) DO UPDATE SET borough,
\* zone, service_zone
Upsert(table, id, b, z, sz) ==
    IF \E i \in DOMAIN table : table[i].location_id = id
    THEN [i \in DOMAIN table |->
            IF table[i].location_id = id
            THEN [table[i] EXCEPT !.borough = b, !.zone = z, !.service_zone = sz]
            ELSE table[i]]
    ELSE Append(table, ZoneRow(id, b, z, sz))

\* UPDATE zones SET centroid_lat = $1, centroid_lon = $2 WHERE location_id = $3
SetCentroid(table, c) ==
    [i \in DOMAIN table |->
        IF table[i].location_id = c.location_id.n
        THEN [table[i] EXCEPT !.centroid_lat = JsNum(c.lat),
                              !.centroid_lon = JsNum(c.lon)]
        ELSE table[i]]

\* ------------------------------------------------------------ the run
InitZones ==
    /\ format = "csv" /\ zoneMap = ZoneMapNull /\ PipeInit
    /\ probeRow = BaseRow /\ probeResult = NoResult /\ probeTrip = NoTrip
    /\ probePc = "off"
    /\ lookupRows \in SeqsUpTo(LookupRowKinds, MaxLookupRows)
    /\ shapefile \in {NoShapefile} \cup
          {[exists |-> TRUE, features |-> fs] :
              fs \in SeqsUpTo(FeatureKinds, MaxFeatures)}
    /\ zpc = "start" /\ ZoneRunInit
    /\ KmOff

otherVars == <<pipeVars, zoneMap, probeVars, kmVars>>

\* await client.query('DELETE FROM zones'): refused by the foreign keys of
\* trips when a trip references a zone; the run then ends in the catch.
RunDelete ==
    /\ zpc = "start"
    /\ IF tripsRef
       THEN zpc' = "failed" /\ UNCHANGED <<zones, zi>>
       ELSE zones' = <<>> /\ zpc' = "load" /\ zi' = 1
    /\ UNCHANGED <<otherVars, lookupRows, shapefile, tripsRef, centroids, count,
                   updated, loadedZones, matched, runs>>

\* One turn of `for (const row of rows)`.
LoadZonesRow ==
    /\ zpc = "load" /\ zi <= Len(lookupRows)
    /\ LET row == lookupRows[zi]
           locId == parseInt10(row.LocationID)
       IN  IF locId = JsNaN
           THEN UNCHANGED zones
           ELSE zones' = Upsert(zones, locId.n, Trim(row.Borough), Trim(row.Zone),
                                Trim(row.service_zone))
    /\ zi' = zi + 1
    /\ UNCHANGED <<otherVars, lookupRows, shapefile, tripsRef, zpc, centroids,
                   count, updated, loadedZones, matched, runs>>

\* return rows.length, then run's fs.existsSync(shpPath) && existsSync(dbfPath)
LoadZonesReturn ==
    /\ zpc = "load" /\ zi > Len(lookupRows)
    /\ count' = Len(lookupRows)
    /\ loadedZones' = zones
    /\ IF shapefile.exists
       THEN zpc' = "read" /\ zi' = 1
       ELSE zpc' = "release" /\ UNCHANGED zi
    /\ UNCHANGED <<otherVars, lookupRows, shapefile, zones, tripsRef, centroids,
                   updated, matched, runs>>

\* One turn of `while (!result.done)`.
ShapefileRead ==
    /\ zpc = "read" /\ zi <= Len(shapefile.features)
    /\ LET f == shapefile.features[zi]
           locId == IF f.LocationID.k = "null" THEN JsNull
                    ELSE parseInt10(f.LocationID)
           xy == polygonCentroid(f.geometry.coordinates)
       IN  IF locId = JsNull \/ ~f.geometry.present \/ ~f.geometry.hasCoordinates
           THEN UNCHANGED centroids
           ELSE IF xy.ok
                THEN centroids' = Append(centroids,
                        [location_id |-> locId, lat |-> proj4(xy).lat,
                         lon |-> proj4(xy).lon])
                ELSE UNCHANGED centroids
    /\ zi' = zi + 1
    /\ UNCHANGED <<otherVars, lookupRows, shapefile, zones, tripsRef, zpc, count,
                   updated, loadedZones, matched, runs>>

\* result.done: the read loop ends and the update loop starts.
ShapefileDone ==
    /\ zpc = "read" /\ zi > Len(shapefile.features)
    /\ zpc' = "update" /\ zi' = 1
    /\ UNCHANGED <<otherVars, lookupRows, shapefile, zones, tripsRef, centroids,
                   count, updated, loadedZones, matched, runs>>

\* One turn of `for (const c of centroids)`. A NaN location_id is sent as the
\* text 'NaN', which the server refuses for an integer column: the query
\* rejects and the run ends in the catch.
UpdateCentroid ==
    /\ zpc = "update" /\ zi <= Len(centroids)
    /\ LET c == centroids[zi]
       IN  IF c.location_id.t # "num"
           THEN zpc' = "failed" /\ UNCHANGED <<zones, matched, zi>>
           ELSE /\ zones' = SetCentroid(zones, c)
                /\ matched' = matched \cup
                      {zones[i].location_id : i \in
                          {j \in DOMAIN zones :
                              zones[j].location_id = c.location_id.n}}
                /\ zi' = zi + 1
                /\ UNCHANGED zpc
    /\ UNCHANGED <<otherVars, lookupRows, shapefile, tripsRef, centroids, count,
                   updated, loadedZones, runs>>

\* return centroids.length
UpdateCentroidsReturn ==
    /\ zpc = "update" /\ zi > Len(centroids)
    /\ updated' = Len(centroids)
    /\ zpc' = "release"
    /\ UNCHANGED <<otherVars, lookupRows, shapefile, zones, tripsRef, zi,
                   centroids, count, loadedZones, matched, runs>>

\* finally { client.release(); await pool.end(); }
RunRelease ==
    /\ zpc = "release"
    /\ zpc' = "done"
    /\ runs' = Append(runs, zones)
    /\ UNCHANGED <<otherVars, lookupRows, shapefile, zones, tripsRef, zi,
                   centroids, count, updated, loadedZones, matched>>

\* The script is started again on the same files.
RunAgain ==
    /\ zpc = "done" /\ Len(runs) < MaxRuns
    /\ zpc' = "start"
    /\ zi' = 0 /\ centroids' = <<>> /\ count' = 0 /\ updated' = 0
    /\ loadedZones' = <<>> /\ matched' = {}
    /\ UNCHANGED <<otherVars, lookupRows, shapefile, zones, tripsRef, runs>>

\* Between two runs a trip import stores trips; their pu_location_id and
\* do_location_id reference zones(location_id).
TripsImported ==
    /\ zpc = "done" /\ Len(runs) < MaxRuns
    /\ ~tripsRef /\ zones # <<>>
    /\ tripsRef' = TRUE
    /\ UNCHANGED <<otherVars, lookupRows, shapefile, zones, zpc, zi, centroids,
                   count, updated, loadedZones, matched, runs>>

NextZones ==
    \/ RunDelete
    \/ LoadZonesRow
    \/ LoadZonesReturn
    \/ ShapefileRead
    \/ ShapefileDone
    \/ UpdateCentroid
    \/ UpdateCentroidsReturn
    \/ RunRelease
    \/ RunAgain
    \/ TripsImported

SpecZones == InitZones /\ [][NextZones]_vars

\* ------------------------------------------------- zone loader properties
NoDuplicateIds(table) ==
    \A i, j \in DOMAIN table :
        table[i].location_id = table[j].location_id => i = j

\* C17: running the zone ingestion again on an unchanged lookup file and
\* unchanged shapefile leaves the zones table as the first run left it (same
\* location_ids, same field values), with no location_id twice, also when
\* the lookup file repeats a LocationID.
C17_RerunLeavesSameTable ==
    /\ \A k \in DOMAIN runs : runs[k] = runs[1] /\ NoDuplicateIds(runs[k])
    /\ (runs # <<>> /\ zpc \in {"done", "failed"}) => zones = runs[1]

C17_Witness ==
    /\ zpc = "done" /\ Len(runs) = 2 /\ shapefile.exists
    /\ Len(lookupRows) = 2
    /\ parseInt10(lookupRows[1].LocationID) = parseInt10(lookupRows[2].LocationID)
    /\ Len(zones) = 1 /\ zones[1].centroid_lat # JsNull

\* C18: the count loadZonesFromLookup returns is the number of rows in the
\* zones table after the load; rows with a non-numeric LocationID are not
\* counted and rows repeating a LocationID are counted once.
C18_CountIsZoneRows ==
    zpc \in {"read", "update", "release", "done"} => count = Len(loadedZones)

\* C19: the count updateCentroidsFromShapefile returns is the number of
\* zones whose centroid the call set; a feature whose LocationID matches no
\* zone, or repeats one already handled, does not add to it.
C19_UpdatedIsZonesSet ==
    (zpc \in {"release", "done"} /\ shapefile.exists) =>
        updated = Cardinality(matched)

\* Some feature of the shapefile carries this zone id with a polygon whose
\* outer ring has a numeric vertex.
UsableGeometry(f) ==
    /\ f.geometry.present /\ f.geometry.hasCoordinates
    /\ f.geometry.coordinates # <<>>
    /\ \E i \in DOMAIN f.geometry.coordinates[1] :
          IsNumericPoint(f.geometry.coordinates[1][i])

HasUsableGeometry(id) ==
    \E k \in DOMAIN shapefile.features :
        /\ parseInt10(shapefile.features[k].LocationID) = JsNum(id)
        /\ UsableGeometry(shapefile.features[k])

\* C20: after the centroid backfill every zone without a feature, or whose
\* feature lacks geometry or coordinates, has an empty outer ring or no
\* numeric vertex, still has null centroids; no zone's other fields change;
\* the other zones get their centroid, and the backfill fails only on a
\* feature with a usable polygon and a non-numeric LocationID.
C20_DegenerateGeometryKeepsNull ==
    /\ (zpc \in {"release", "done"} /\ shapefile.exists) =>
          /\ Len(zones) = Len(loadedZones)
          /\ \A i \in DOMAIN zones :
                /\ zones[i].location_id = loadedZones[i].location_id
                /\ zones[i].borough = loadedZones[i].borough
                /\ zones[i].zone = loadedZones[i].zone
                /\ zones[i].service_zone = loadedZones[i].service_zone
                /\ IF HasUsableGeometry(zones[i].location_id)
                   THEN zones[i].centroid_lat # JsNull
                        /\ zones[i].centroid_lon # JsNull
                   ELSE zones[i].centroid_lat = JsNull
                        /\ zones[i].centroid_lon = JsNull
    /\ (zpc = "failed" /\ ~tripsRef) =>
          \E k \in DOMAIN shapefile.features :
              /\ parseInt10(shapefile.features[k].LocationID) = JsNaN
              /\ UsableGeometry(shapefile.features[k])

C20_Witness ==
    /\ zpc = "done" /\ shapefile.exists /\ Len(zones) = 2
    /\ \E i \in DOMAIN zones :
          /\ zones[i].centroid_lat = JsNull
          /\ \E k \in DOMAIN shapefile.features :
                /\ parseInt10(shapefile.features[k].LocationID)
                      = JsNum(zones[i].location_id)
                /\ ~UsableGeometry(shapefile.features[k])
    /\ \E i \in DOMAIN zones : zones[i].centroid_lat # JsNull

\* ================================================== TripClusterer
MaxPoints == 3
MaxIterations == 2

\* durationDiff = (dur1 - dur2) / 1000
DURATION_DIVISOR == 1000
\* The convergence threshold 0.001, as its inverse.
THRESHOLD_INV == 1000

\* A point carries lat, lon and duration; durations are whole multiples of
\* DURATION_DIVISOR so that the distance stays in whole units.
KmPoint(lat, lon, duration) == [lat |-> lat, lon |-> lon, duration |-> duration]

PointKinds ==
    {KmPoint(0, 0, 0), KmPoint(2, 0, 0), KmPoint(1, 0, 2 * DURATION_DIVISOR)}

\* A centroid holds each coordinate as a numerator over the common
\* denominator den: a copy of a point has den 1, a mean the member count.
CopyOf(p) == [lat |-> p.lat, lon |-> p.lon, duration |-> p.duration, den |-> 1]

\* The distance sqrt(sq) / den between two centroid-shaped values.
calculateDistance(point1, point2) ==
    LET latDiff == point1.lat * point2.den - point2.lat * point1.den
        lonDiff == point1.lon * point2.den - point2.lon * point1.den
        durationDiff ==
            (point1.duration * point2.den - point2.duration * point1.den)
                \div DURATION_DIVISOR
    IN  [sq |-> latDiff * latDiff + lonDiff * lonDiff
                + durationDiff * durationDiff,
         den |-> point1.den * point2.den]

\* d1 < d2
DistLess(d1, d2) == d1.sq * d2.den * d2.den < d2.sq * d1.den * d1.den

\* d < 0.001
BelowThreshold(d) ==
    d.sq < (d.den * d.den + THRESHOLD_INV * THRESHOLD_INV - 1)
               \div (THRESHOLD_INV * THRESHOLD_INV)

\* Variant: only a k above the input size returns the input whole.
Degenerate_aboveOnly(k, n) == k > n

\* Variant: a k equal to the input size returns the input whole as well.
Degenerate_atLeast(k, n) == k <= 0 \/ k >= n

\* k <= 0 || k > data.length
Degenerate(k, n) == k <= 0 \/ k > n

\* The whole input as one cluster: [data].
WholeInput(n) == <<[i \in 1..n |-> i]>>

\* Variant: an index is never taken as used.
IsUsed_never(chosen, r) == FALSE

\* usedIndices.has(randomIndex)
IsUsed(chosen, r) == \E j \in DOMAIN chosen : chosen[j] = r

\* Variant: among the nearest centroids the last one wins.
NearestIndex_last(p, cents) ==
    IF cents = <<>> THEN 0
    ELSE CHOOSE j \in DOMAIN cents :
           /\ \A h \in DOMAIN cents :
                 ~DistLess(calculateDistance(p, cents[h]),
                           calculateDistance(p, cents[j]))
           /\ \A h \in DOMAIN cents :
                 h > j => DistLess(calculateDistance(p, cents[j]),
                                   calculateDistance(p, cents[h]))

\* distances.indexOf(Math.min(...distances)): the first position holding the
\* minimum; 0 stands for indexOf's -1 (no centroid at all).
NearestIndex(p, cents) ==
    IF cents = <<>> THEN 0
    ELSE CHOOSE j \in DOMAIN cents :
           /\ \A h \in DOMAIN cents :
                 ~DistLess(calculateDistance(p, cents[h]),
                           calculateDistance(p, cents[j]))
           /\ \A h \in DOMAIN cents :
                 h < j => DistLess(calculateDistance(p, cents[j]),
                                   calculateDistance(p, cents[h]))

\* The positions 1..n in order.
Indices(n) == [i \in 1..n |-> i]

\* Variant: a point goes to every centroid at the minimum distance.
AssignPoints_everyNearest(data, cents, k) ==
    [j \in 1..k |->
        SelectSeq(Indices(Len(data)),
                  LAMBDA i : \A h \in DOMAIN cents :
                      ~DistLess(calculateDistance(CopyOf(data[i]), cents[h]),
                                calculateDistance(CopyOf(data[i]), cents[j])))]

\* clusters = Array(k).fill().map(() => []); data.forEach(point => ...
\* clusters[nearestIndex].push(point)): each cluster lists its points by
\* their position in data, in the order forEach visits them.
AssignPoints(data, cents, k) ==
    [j \in 1..k |->
        SelectSeq(Indices(Len(data)),
                  LAMBDA i : NearestIndex(CopyOf(data[i]), cents) = j)]

\* cluster.reduce((sum, p) => sum + parseFloat(p.<field>), 0) for the three
\* fields at once.
RECURSIVE SumPoints(_, _, _)
SumPoints(cluster, data, i) ==
    IF i = 0 THEN [lat |-> 0, lon |-> 0, duration |-> 0]
    ELSE LET rest == SumPoints(cluster, data, i - 1)
             p == data[cluster[i]]
         IN  [lat |-> rest.lat + p.lat, lon |-> rest.lon + p.lon,
              duration |-> rest.duration + p.duration]

\* { lat: avgLat, lon: avgLon, duration: avgDuration }
MeanOf(cluster, data) ==
    LET sum == SumPoints(cluster, data, Len(cluster))
    IN  [lat |-> sum.lat, lon |-> sum.lon, duration |-> sum.duration,
         den |-> Len(cluster)]

\* The clusters the assignment left empty.
EmptyClusters(clusters) == {j \in DOMAIN clusters : clusters[j] = <<>>}

\* Variant: empty clusters get no centroid.
NewCentroids_dropEmpty(clusters, data, seeds) ==
    LET kept == SelectSeq(clusters, LAMBDA c : c # <<>>)
    IN  [j \in DOMAIN kept |-> MeanOf(kept[j], data)]

\* clusters.map(...): an empty cluster takes a copy of data[randomIndex]
\* (seeds[j] is its random index), another one the mean of its members.
NewCentroids(clusters, data, seeds) ==
    [j \in DOMAIN clusters |->
        IF clusters[j] = <<>> THEN CopyOf(data[seeds[j]])
        ELSE MeanOf(clusters[j], data)]

\* Variant: the loop never ends early.
Converged_never(cents, new) == FALSE

\* centroids.every((centroid, i) => distance(centroid, newCentroids[i]) < 0.001)
Converged(cents, new) ==
    \A i \in DOMAIN cents :
        i \in DOMAIN new /\ BelowThreshold(calculateDistance(cents[i], new[i]))

\* Variant: the clusters are returned as they are.
NonEmptyClusters_all(clusters) == clusters

\* clusters.filter(cluster => cluster.length > 0)
NonEmptyClusters(clusters) == SelectSeq(clusters, LAMBDA c : c # <<>>)

\* -------------------------------------------------------------- kMeans
\* The k arguments tried: below, inside and above the sizes of the inputs.
KValues == -1..(MaxPoints + 1)

InitKMeans ==
    /\ format = "csv" /\ zoneMap = ZoneMapNull /\ PipeInit
    /\ probeRow = BaseRow /\ probeResult = NoResult /\ probeTrip = NoTrip
    /\ probePc = "off"
    /\ ZoneOff
    /\ kmData \in SeqsUpTo(PointKinds, MaxPoints)
    /\ kmK \in KValues
    /\ kmMaxIter \in 0..MaxIterations
    /\ kmPc = "call" /\ KmRunInit

nonKmVars == <<pipeVars, zoneMap, probeVars, zoneVars>>

\* kMeans is entered: the two early returns, or on to initializeCentroids.
KMeansCall ==
    /\ kmPc = "call"
    /\ IF kmData = <<>>
       THEN kmResult' = <<>> /\ kmPc' = "returned"
       ELSE IF Degenerate(kmK, Len(kmData))
            THEN kmResult' = WholeInput(Len(kmData)) /\ kmPc' = "returned"
            ELSE kmPc' = "init" /\ UNCHANGED kmResult
    /\ UNCHANGED <<nonKmVars, kmData, kmK, kmMaxIter, kmChosen, kmCentroids,
                   kmClusters, kmNew, kmIteration, kmSteps>>

\* One turn of the do-while inside `for (let i = 0; i < k; i++)`: a random
\* index is drawn; a used one is drawn again, a fresh one is pushed.
InitDraw ==
    /\ kmPc = "init" /\ Len(kmChosen) < kmK
    /\ \E randomIndex \in 1..Len(kmData) :
          IF IsUsed(kmChosen, randomIndex)
          THEN UNCHANGED <<kmChosen, kmCentroids>>
          ELSE /\ kmChosen' = Append(kmChosen, randomIndex)
               /\ kmCentroids' = Append(kmCentroids, CopyOf(kmData[randomIndex]))
    /\ UNCHANGED <<nonKmVars, kmData, kmK, kmMaxIter, kmPc, kmClusters, kmNew,
                   kmIteration, kmSteps, kmResult>>

\* return centroids; let clusters = []
InitReturn ==
    /\ kmPc = "init" /\ Len(kmChosen) >= kmK
    /\ kmPc' = "loop"
    /\ UNCHANGED <<nonKmVars, kmData, kmK, kmMaxIter, kmChosen, kmCentroids,
                   kmClusters, kmNew, kmIteration, kmSteps, kmResult>>

\* iteration < maxIterations holds: the assignment step.
AssignStep ==
    /\ kmPc = "loop" /\ kmIteration < kmMaxIter
    /\ kmClusters' = AssignPoints(kmData, kmCentroids, kmK)
    /\ kmSteps' = kmSteps + 1
    /\ kmPc' = "update"
    /\ UNCHANGED <<nonKmVars, kmData, kmK, kmMaxIter, kmChosen, kmCentroids,
                   kmNew, kmIteration, kmResult>>

\* iteration < maxIterations fails: the loop is left.
LoopExit ==
    /\ kmPc = "loop" /\ kmIteration >= kmMaxIter
    /\ kmPc' = "filter"
    /\ UNCHANGED <<nonKmVars, kmData, kmK, kmMaxIter, kmChosen, kmCentroids,
                   kmClusters, kmNew, kmIteration, kmSteps, kmResult>>

\* The update step, with one random index for every empty cluster.
UpdateStep ==
    /\ kmPc = "update"
    /\ \E seeds \in [EmptyClusters(kmClusters) -> 1..Len(kmData)] :
          kmNew' = NewCentroids(kmClusters, kmData, seeds)
    /\ kmPc' = "converge"
    /\ UNCHANGED <<nonKmVars, kmData, kmK, kmMaxIter, kmChosen, kmCentroids,
                   kmClusters, kmIteration, kmSteps, kmResult>>

\* if (converged) break; centroids = newCentroids; iteration++
ConvergenceTest ==
    /\ kmPc = "converge"
    /\ IF Converged(kmCentroids, kmNew)
       THEN kmPc' = "filter" /\ UNCHANGED <<kmCentroids, kmIteration>>
       ELSE /\ kmCentroids' = kmNew
            /\ kmIteration' = kmIteration + 1
            /\ kmPc' = "loop"
    /\ UNCHANGED <<nonKmVars, kmData, kmK, kmMaxIter, kmChosen, kmClusters,
                   kmNew, kmSteps, kmResult>>

\* return clusters.filter(cluster => cluster.length > 0)
KMeansReturn ==
    /\ kmPc = "filter"
    /\ kmResult' = NonEmptyClusters(kmClusters)
    /\ kmPc' = "returned"
    /\ UNCHANGED <<nonKmVars, kmData, kmK, kmMaxIter, kmChosen, kmCentroids,
                   kmClusters, kmNew, kmIteration, kmSteps>>

NextKMeans ==
    \/ KMeansCall
    \/ InitDraw
    \/ InitReturn
    \/ AssignStep
    \/ LoopExit
    \/ UpdateStep
    \/ ConvergenceTest
    \/ KMeansReturn

SpecKMeans == InitKMeans /\ [][NextKMeans]_vars

\* The same with the fairness of a running program whose random source does
\* not avoid the unused indices for ever.
FairSpecKMeans == SpecKMeans /\ WF_vars(NextKMeans)

\* ----------------------------------------------------- kMeans properties
KInRange == 1 <= kmK /\ kmK <= Len(kmData)

PairwiseDistinct(data) ==
    \A i, j \in DOMAIN data : data[i] = data[j] => i = j

\* C21: on an empty list kMeans returns the empty list for every k; on a
\* non-empty list with k <= 0 or k > points.length it returns one cluster
\* holding the whole input in input order, and no centroid is drawn and no
\* assignment or update step runs.
C21_DegenerateInputs ==
    kmPc = "returned" =>
        /\ kmData = <<>> =>
              kmResult = <<>> /\ kmSteps = 0 /\ kmChosen = <<>>
        /\ (kmData # <<>> /\ (kmK <= 0 \/ kmK > Len(kmData))) =>
              /\ Len(kmResult) = 1
              /\ kmResult[1] = Indices(Len(kmData))
              /\ kmSteps = 0 /\ kmChosen = <<>> /\ kmNew = <<>>

C21_Witness ==
    /\ kmPc = "returned" /\ kmK <= 0 /\ kmMaxIter >= 1
    /\ Len(kmData) = MaxPoints
    /\ Len(kmResult) = 1 /\ Len(kmResult[1]) = MaxPoints

\* C22 as stated: for a non-empty list and every k >= points.length, k equal
\* to points.length included, kMeans returns exactly one cluster holding the
\* whole input.
C22_AtLeastSizeOneCluster ==
    (kmPc = "returned" /\ kmData # <<>> /\ kmK >= Len(kmData)) =>
        Len(kmResult) = 1 /\ kmResult[1] = Indices(Len(kmData))

\* C22, amended: for a non-empty list and k > points.length kMeans returns
\* exactly one cluster holding the whole input; k = points.length is not a
\* degenerate case: k centroids are drawn and the clustering runs, so that
\* pairwise distinct points with maxIterations >= 1 end each in a cluster of
\* its own.
C22_AboveSizeOneCluster ==
    (kmPc = "returned" /\ kmData # <<>>) =>
        /\ kmK > Len(kmData) =>
              Len(kmResult) = 1 /\ kmResult[1] = Indices(Len(kmData))
        /\ kmK = Len(kmData) =>
              /\ Len(kmChosen) = kmK
              /\ (PairwiseDistinct(kmData) /\ kmMaxIter >= 1) =>
                    /\ Len(kmResult) = Len(kmData)
                    /\ \A j \in DOMAIN kmResult : Len(kmResult[j]) = 1

C22_Witness ==
    /\ kmPc = "returned" /\ kmK = Len(kmData) /\ Len(kmData) >= 2
    /\ Len(kmResult) = Len(kmData)

\* C23: for a non-empty list kMeans with k = 1 returns exactly one cluster,
\* which holds all input points.
C23_SingleCluster ==
    (kmPc = "returned" /\ kmData # <<>> /\ kmK = 1) =>
        Len(kmResult) = 1 /\ kmResult[1] = Indices(Len(kmData))

\* C24: for a non-empty list and 1 <= k <= points.length, kMeans with
\* maxIterations = 0 refines nothing and returns the assignment of all input
\* points to the k centroids drawn at the start.
C24_ZeroIterationsInitialAssignment ==
    (kmPc = "returned" /\ kmData # <<>> /\ KInRange /\ kmMaxIter = 0) =>
        /\ kmIteration = 0
        /\ kmResult = NonEmptyClusters(AssignPoints(kmData, kmCentroids, kmK))

\* C25: every cluster kMeans returns is non-empty, and for
\* 1 <= k <= points.length at most k clusters are returned.
C25_ReturnedClustersNonEmpty ==
    kmPc = "returned" =>
        /\ \A j \in DOMAIN kmResult : kmResult[j] # <<>>
        /\ KInRange => Len(kmResult) <= kmK

C25_Witness ==
    /\ kmPc = "returned" /\ KInRange
    /\ EmptyClusters(kmClusters) # {}
    /\ Len(kmResult) >= 1 /\ Len(kmResult) < kmK

\* C26: for a non-empty list, 1 <= k <= points.length and maxIterations >= 1
\* the returned clusters partition the input: every input point is in
\* exactly one returned cluster, exactly once, nothing else is in a cluster,
\* and inside a cluster the points keep their input order.
C26_ClustersPartitionInput ==
    (kmPc = "returned" /\ kmData # <<>> /\ KInRange /\ kmMaxIter >= 1) =>
        /\ \A i \in DOMAIN kmData :
              Cardinality({<<j, q>> \in (DOMAIN kmResult) \X (1..Len(kmData)) :
                              q \in DOMAIN kmResult[j] /\ kmResult[j][q] = i}) = 1
        /\ \A j \in DOMAIN kmResult : \A q \in DOMAIN kmResult[j] :
              /\ kmResult[j][q] \in DOMAIN kmData
              /\ q > 1 => kmResult[j][q - 1] < kmResult[j][q]

C26_Witness ==
    /\ kmPc = "returned" /\ kmK = 2 /\ Len(kmData) = MaxPoints
    /\ kmSteps >= 2 /\ Len(kmResult) = 2

\* Every centroid is less than 0.001 away from the one recomputed for it.
AllWithinThreshold ==
    /\ Len(kmNew) = Len(kmCentroids)
    /\ \A i \in DOMAIN kmCentroids :
          LET d == calculateDistance(kmCentroids[i], kmNew[i])
          IN  \E bound \in 1..(d.den * d.den) :
                  /\ (bound - 1) * THRESHOLD_INV * THRESHOLD_INV < d.den * d.den
                  /\ d.sq < bound

\* C27: kMeans terminates on every input when the random source does not
\* avoid the unused indices for ever: the initialization loop ends, the main
\* loop runs at most maxIterations iterations, and it ends earlier exactly
\* at the first iteration whose recomputed centroids are all within 0.001 of
\* the centroids they replace.
C27_Terminates ==
    /\ <>(kmPc = "returned")
    /\ [](kmIteration <= kmMaxIter /\ kmSteps <= kmMaxIter)
    /\ [][/\ kmPc = "converge" =>
                IF AllWithinThreshold
                THEN kmPc' = "filter"
                ELSE kmPc' = "loop" /\ kmIteration' = kmIteration + 1
          /\ (kmPc = "loop" /\ kmPc' = "filter") => kmIteration = kmMaxIter
          /\ (kmPc = "init" /\ kmPc' = "loop") => Len(kmChosen) = kmK]_vars

C27_Witness ==
    /\ kmPc = "returned"
    /\ kmIteration >= 1 /\ kmIteration < kmMaxIter
    /\ AllWithinThreshold

\* C28: for 1 <= k <= points.length initializeCentroids returns exactly k
\* centroids, copies of the input points at k pairwise distinct indices; no
\* index is chosen twice and the input itself is left as it was.
C28_InitialCentroidsDistinctCopies ==
    [][/\ kmData' = kmData
       /\ (kmPc = "init" /\ KInRange) =>
             /\ \A i, j \in DOMAIN kmChosen : kmChosen[i] = kmChosen[j] => i = j
             /\ \A j \in DOMAIN kmChosen : kmChosen[j] \in DOMAIN kmData
             /\ kmCentroids = [j \in DOMAIN kmChosen |-> CopyOf(kmData[kmChosen[j]])]
             /\ kmPc' = "loop" => Len(kmCentroids) = kmK]_vars

C28_Witness ==
    /\ kmPc = "loop" /\ kmSteps = 0
    /\ kmK = 2 /\ Len(kmData) = MaxPoints
    /\ Len(kmCentroids) = 2 /\ kmChosen[1] > kmChosen[2]

\* C29: after an assignment step every point is in the cluster of a centroid
\* at minimum distance from it, and among several centroids at exactly that
\* distance in the one with the lowest index.
C29_NearestLowestIndex ==
    kmPc = "update" =>
        /\ Len(kmClusters) = kmK
        /\ \A i \in DOMAIN kmData :
              \E j \in DOMAIN kmClusters :
                  /\ \E q \in DOMAIN kmClusters[j] : kmClusters[j][q] = i
                  /\ \A h \in DOMAIN kmCentroids :
                        /\ ~DistLess(calculateDistance(CopyOf(kmData[i]), kmCentroids[h]),
                                     calculateDistance(CopyOf(kmData[i]), kmCentroids[j]))
                        /\ h < j =>
                              DistLess(calculateDistance(CopyOf(kmData[i]), kmCentroids[j]),
                                       calculateDistance(CopyOf(kmData[i]), kmCentroids[h]))

\* Point i is as far from centroid j as from centroid h.
SameDistance(i, j, h) ==
    /\ ~DistLess(calculateDistance(CopyOf(kmData[i]), kmCentroids[h]),
                 calculateDistance(CopyOf(kmData[i]), kmCentroids[j]))
    /\ ~DistLess(calculateDistance(CopyOf(kmData[i]), kmCentroids[j]),
                 calculateDistance(CopyOf(kmData[i]), kmCentroids[h]))

C29_Witness ==
    /\ kmPc = "update" /\ Len(kmCentroids) = 2
    /\ kmCentroids[1] # kmCentroids[2]
    /\ \E i \in DOMAIN kmData :
          /\ SameDistance(i, 1, 2)
          /\ \E q \in DOMAIN kmClusters[1] : kmClusters[1][q] = i

\* C30: after an update step there are k new centroids: a cluster the
\* assignment left empty has a copy of some point of the whole input, a
\* non-empty cluster the componentwise mean of its members' lat, lon and
\* duration; the number of centroids is k in every iteration.
C30_EmptyClusterReseeded ==
    /\ kmPc \in {"loop", "update", "converge", "filter"} =>
          Len(kmCentroids) = kmK
    /\ kmPc = "converge" =>
          /\ Len(kmNew) = kmK
          /\ \A j \in DOMAIN kmNew :
                IF kmClusters[j] = <<>>
                THEN \E r \in DOMAIN kmData : kmNew[j] = CopyOf(kmData[r])
                ELSE LET sum == SumPoints(kmClusters[j], kmData, Len(kmClusters[j]))
                     IN  /\ kmNew[j].den = Len(kmClusters[j])
                         /\ kmNew[j].lat = sum.lat
                         /\ kmNew[j].lon = sum.lon
                         /\ kmNew[j].duration = sum.duration

C30_Witness ==
    /\ kmPc = "converge" /\ kmK = 2
    /\ kmClusters[2] = <<>> /\ Len(kmClusters[1]) >= 2
    /\ kmNew[1].den >= 2 /\ kmNew[2].den = 1

====
